---- MODULE Spec2Model ----
(***************************************************************************)
(* Stack synthesis and cross-stack references of cdktf's TerraformStack:   *)
(* the construct tree, the element walk, the cross-stack memo maps and the *)
(* stack dependency graph.                                                 *)
(*                                                                         *)
(* The construct tree is a sequence of node records; a node's identity is  *)
(* its index, allocated in construction order, so the children of a node   *)
(* in insertion order are the nodes scoped to it in ascending index.       *)
(***************************************************************************)
EXTENDS Integers, Sequences, FiniteSets, TLC

VARIABLES
    tree,                   \* the construct tree: Seq of node records
    dependencies,           \* TerraformStack.dependencies, per stack: Seq of stacks
    crossStackOutputs,      \* TerraformStack.crossStackOutputs, per stack
    crossStackDataSources,  \* TerraformStack.crossStackDataSources, per stack
    last,                   \* the last call made and what it returned or threw
    returns,                \* the register calls made so far, each with what it
                            \* returned, in call order
    skipValidation,         \* the App's skipValidation option
    run,                    \* the synthesis run: its stage and what is left of it
    docs                    \* per stack, the document last synthesized for it

synthVars == <<skipValidation, run, docs>>

vars == <<tree, dependencies, crossStackOutputs, crossStackDataSources, last,
          returns, synthVars>>

(***************************************************************************)
(* Bounds of the model.                                                    *)
(***************************************************************************)
NumStacks == 3
MaxEdges == 3
MaxUserNodes == 4
MaxRefStacks == 2
MaxCalls == 3
MaxSynthNodes == 3
MaxRuns == 2
MaxResolveDepth == 3
MaxFragments == 2
MaxOverrides == 1

NoNode == 0
NoCall == [op |-> "none"]

\* The synthesis run before app.synth() is called.
IdleRun == [phase |-> "Idle", todo |-> <<>>, base |-> 0, errors |-> <<>>,
            count |-> 0, previous |-> <<>>, prepared |-> <<>>,
            synthesized |-> <<>>]

(***************************************************************************)
(* The construct tree.  A node records its class (kind: App, Stack,        *)
(* Element for a TerraformElement, Construct for any other construct), its *)
(* scope (parent), its id within the scope, for an element what it is      *)
(* (etype) and the cross-stack value its configuration refers to (ref).    *)
(***************************************************************************)
Nodes == DOMAIN tree

App == 1

NoRef == [origin |-> NoNode, identifier |-> "none"]

\* The id a construct is given in its scope.  The ids the code makes up are
\* a fixed text joined with an identifier or with a stack's path.
Id(tag, k, identifier, path) ==
    [tag |-> tag, k |-> k, identifier |-> identifier, path |-> path]

ChildId(k) == Id("child", k, "", <<>>)

(***************************************************************************)
(* The data of fragments, metadata, overrides and documents.  A value is a *)
(* scalar (s), a construct id (id), a mapping from keys to values (m), an  *)
(* array of keys (a: the keys it holds, their order left out), a deferred  *)
(* value (a token, named by s) or undefined.                               *)
(***************************************************************************)
NoId == Id("", 0, "", <<>>)

EmptyFcn == [k \in {} |-> NoId]

Val(kind, s, id, m, a) == [kind |-> kind, s |-> s, id |-> id, m |-> m, a |-> a]

Scalar(s) == Val("scalar", s, NoId, EmptyFcn, {})

Name(id) == Val("id", "", id, EmptyFcn, {})

Map(m) == Val("map", "", NoId, m, {})

Array(keys) == Val("array", "", NoId, EmptyFcn, keys)

Token(s) == Val("token", s, NoId, EmptyFcn, {})

Undefined == Val("undefined", "", NoId, EmptyFcn, {})

EmptyMap == Map(EmptyFcn)

\* Object.keys(v)
Keys(v) == DOMAIN v.m

\* typeof v === "object" && v != null && !Array.isArray(v)
isObject(v) == v.kind = "map"

\* A node also records what its toTerraform() and toMetadata() return
\* (fragment, metadata: the empty mapping unless given), for a stack its
\* rawOverrides, and the context keys set to true on it (context).
MkNode(kind, scope, id, etype, ref) ==
    [kind |-> kind, scope |-> scope, id |-> id, etype |-> etype, ref |-> ref,
     fragment |-> EmptyMap, metadata |-> EmptyMap, rawOverrides |-> EmptyMap,
     context |-> {}]

\* new Construct(scope, id): the node is appended to its scope's children.
AddChild(t, node) == Append(t, node)

\* node.children: the nodes scoped to `n`, in insertion order.
Children(t, n) ==
    SelectSeq([i \in 1..Len(t) |-> i], LAMBDA i : t[i].scope = n)

isStackIn(t, x) == x \in DOMAIN t /\ t[x].kind = "Stack"

isStack(x) == isStackIn(tree, x)

AllStacks == {n \in Nodes : isStack(n)}

isElement(t, x) == x \in DOMAIN t /\ t[x].kind = "Element"

isBackend(t, x) == isElement(t, x) /\ t[x].etype = "backend"

\* node.path: the ids from the root down to the node, the root's own id left
\* out.  String(stack) and `${stack}` are the path.
RECURSIVE PathOf(_, _)
PathOf(t, n) ==
    IF t[n].scope = NoNode THEN <<>>
    ELSE Append(PathOf(t, t[n].scope), t[n].id)

\* Faulty variant: the outermost stack on the way up is returned.
RECURSIVE of_Outermost(_, _)
of_Outermost(t, c) ==
    IF t[c].scope = NoNode THEN (IF isStackIn(t, c) THEN c ELSE NoNode)
    ELSE IF of_Outermost(t, t[c].scope) # NoNode THEN of_Outermost(t, t[c].scope)
    ELSE IF isStackIn(t, c) THEN c
    ELSE NoNode

\* TerraformStack.of: the nearest stack from the construct upwards; NoNode
\* stands for the error thrown when the root is passed without meeting one.
RECURSIVE of(_, _)
of(t, c) ==
    IF isStackIn(t, c) THEN c
    ELSE IF t[c].scope = NoNode THEN NoNode
    ELSE of(t, t[c].scope)

\* The root of the tree above a construct.
RECURSIVE RootOf(_, _)
RootOf(t, c) == IF t[c].scope = NoNode THEN c ELSE RootOf(t, t[c].scope)

\* What TerraformStack.of(construct) throws when it returns no stack: the
\* message names construct.node.path, with a hint for a backend scoped to
\* the App.
NoError == [thrown |-> FALSE, path |-> <<>>, hint |-> FALSE]

ofError(t, construct) ==
    IF of(t, construct) # NoNode THEN NoError
    ELSE [thrown |-> TRUE, path |-> PathOf(t, construct),
          hint |-> /\ t[construct].scope = RootOf(t, construct)
                   /\ t[RootOf(t, construct)].kind = "App"
                   /\ isBackend(t, construct)]

(***************************************************************************)
(* terraformElements: the element walk from a node; pre-order, children in *)
(* insertion order, a child that is a stack is skipped with its subtree.   *)
(***************************************************************************)
RECURSIVE terraformElements(_, _)
RECURSIVE terraformElementsOver(_, _, _)

\* Faulty variant: the walk descends into nested stacks.
RECURSIVE terraformElementsOver_IntoSubstacks(_, _, _)
terraformElementsOver_IntoSubstacks(t, children, i) ==
    IF i > Len(children) THEN <<>>
    ELSE terraformElements(t, children[i])
            \o terraformElementsOver_IntoSubstacks(t, children, i + 1)

\* Faulty variant: only a child that is an element is descended into.
RECURSIVE terraformElementsOver_ThroughElements(_, _, _)
terraformElementsOver_ThroughElements(t, children, i) ==
    IF i > Len(children) THEN <<>>
    ELSE (IF ~isElement(t, children[i]) THEN <<>>
          ELSE terraformElements(t, children[i]))
            \o terraformElementsOver_ThroughElements(t, children, i + 1)

\* Faulty variant: an element that has children is not collected.
terraformElements_LeavesOnly(t, node) ==
    (IF isElement(t, node) /\ Children(t, node) = <<>> THEN <<node>> ELSE <<>>)
        \o terraformElementsOver(t, Children(t, node), 1)

terraformElements(t, node) ==
    (IF isElement(t, node) THEN <<node>> ELSE <<>>)
        \o terraformElementsOver(t, Children(t, node), 1)

terraformElementsOver(t, children, i) ==
    IF i > Len(children) THEN <<>>
    ELSE (IF isStackIn(t, children[i]) THEN <<>>
          ELSE terraformElements(t, children[i]))
            \o terraformElementsOver(t, children, i + 1)

(***************************************************************************)
(* Array.prototype.includes on a dependency list.                          *)
(***************************************************************************)
Includes(list, x) == \E i \in DOMAIN list : list[i] = x

(***************************************************************************)
(* TerraformStack.dependsOn.  The method is a plain recursion over the     *)
(* dependency lists without a visited set:                                 *)
(*     includes(stack) || dependencies.some(d => d.dependsOn(stack))       *)
(* `some` visits the list in order and stops at the first true.  A call    *)
(* that re-enters a stack whose own call is still active repeats that call *)
(* with the same arguments on the same graph, so the recursion never ends  *)
(* and the engine throws RangeError (call stack exhausted); `active` is    *)
(* the set of stacks whose call is on the call stack.                      *)
(***************************************************************************)
RECURSIVE dependsOnFrom(_, _, _, _)
RECURSIVE someDependsOn(_, _, _, _, _)

dependsOnFrom(deps, self, stack, active) ==
    IF self \in active THEN "RangeError"
    ELSE IF Includes(deps[self], stack) THEN "true"
    ELSE someDependsOn(deps, deps[self], 1, stack, active \cup {self})

someDependsOn(deps, list, i, stack, active) ==
    IF i > Len(list) THEN "false"
    ELSE LET r == dependsOnFrom(deps, list[i], stack, active)
         IN  IF r = "false"
             THEN someDependsOn(deps, list, i + 1, stack, active)
             ELSE r

dependsOn(self, stack) == dependsOnFrom(dependencies, self, stack, {})

(***************************************************************************)
(* TerraformStack.addDependency: what the call returns or throws, and the  *)
(* dependency lists it leaves behind.                                      *)
(***************************************************************************)
addDependencyResult(self, dependency) ==
    LET r == dependsOn(dependency, self)
    IN  IF r = "RangeError" THEN "RangeError"
        ELSE IF r = "true" THEN "CyclicDependency"
        ELSE "ok"

\* Faulty variant: the edge is pushed before the loop check is made.
addDependencyPost_PushFirst(self, dependency) ==
    IF Includes(dependencies[self], dependency) THEN dependencies
    ELSE [dependencies EXCEPT ![self] = Append(@, dependency)]

addDependencyPost(self, dependency) ==
    IF addDependencyResult(self, dependency) # "ok" THEN dependencies
    ELSE IF Includes(dependencies[self], dependency) THEN dependencies
    ELSE [dependencies EXCEPT ![self] = Append(@, dependency)]

RECURSIVE SumLen(_, _)
SumLen(f, S) ==
    IF S = {} THEN 0
    ELSE LET s == CHOOSE x \in S : TRUE IN Len(f[s]) + SumLen(f, S \ {s})

TotalEdges(deps) == SumLen(deps, DOMAIN deps)

AddDependency(self, dependency) ==
    /\ isStack(self) /\ isStack(dependency)
    /\ TotalEdges(addDependencyPost(self, dependency)) <= MaxEdges
    /\ dependencies' = addDependencyPost(self, dependency)
    /\ last' = [op |-> "addDependency", self |-> self, arg |-> dependency,
                result |-> addDependencyResult(self, dependency),
                before |-> dependencies]
    /\ UNCHANGED <<tree, crossStackOutputs, crossStackDataSources, returns,
                   synthVars>>

DependsOn(self, stack) ==
    /\ isStack(self) /\ isStack(stack)
    /\ last' = [op |-> "dependsOn", self |-> self, arg |-> stack,
                result |-> dependsOn(self, stack),
                before |-> dependencies]
    /\ UNCHANGED <<tree, dependencies, crossStackOutputs, crossStackDataSources,
                   returns, synthVars>>

(***************************************************************************)
(* The dependency graph of an application with NumStacks stacks under the  *)
(* App root, none of them with a dependency yet.                           *)
(***************************************************************************)

InitDeps ==
    /\ tree = [n \in 1..(NumStacks + 1) |->
                 IF n = App THEN MkNode("App", NoNode, Id("", 0, "", <<>>), "none", NoRef)
                 ELSE MkNode("Stack", App, ChildId(n - 1), "none", NoRef)]
    /\ dependencies = [s \in 2..(NumStacks + 1) |-> <<>>]
    /\ crossStackOutputs = [s \in 2..(NumStacks + 1) |-> <<>>]
    /\ crossStackDataSources = [s \in 2..(NumStacks + 1) |-> <<>>]
    /\ last = NoCall
    /\ returns = <<>>
    /\ skipValidation = FALSE
    /\ run = IdleRun
    /\ docs = <<>>

NextDeps ==
    \/ \E self \in AllStacks, dependency \in AllStacks : AddDependency(self, dependency)
    \/ \E self \in AllStacks, stack \in AllStacks : DependsOn(self, stack)

SpecDeps == InitDeps /\ [][NextDeps]_vars

(***************************************************************************)
(* The part of the state the register methods read and write, passed       *)
(* through them as one record.                                             *)
(***************************************************************************)
World ==
    [tree |-> tree,
     crossStackOutputs |-> crossStackOutputs,
     crossStackDataSources |-> crossStackDataSources]

(***************************************************************************)
(* get backend(): every backend below the stack, nested stacks included,   *)
(* in pre-order; the first one, or a new LocalBackend scoped to the stack  *)
(* under the id "backend".                                                 *)
(***************************************************************************)
RECURSIVE visitBackends(_, _)
RECURSIVE visitBackendsOver(_, _, _)

visitBackends(t, node) ==
    (IF isBackend(t, node) THEN <<node>> ELSE <<>>)
        \o visitBackendsOver(t, Children(t, node), 1)

visitBackendsOver(t, children, i) ==
    IF i > Len(children) THEN <<>>
    ELSE visitBackends(t, children[i]) \o visitBackendsOver(t, children, i + 1)

backend(t, self) ==
    LET items == visitBackends(t, self)
    IN  IF Len(items) > 0
        THEN [tree |-> t, ret |-> items[1]]
        ELSE LET t2 == AddChild(t, MkNode("Element", self, Id("backend", 0, "", <<>>),
                                          "backend", NoRef))
             IN  [tree |-> t2, ret |-> Len(t2)]

(***************************************************************************)
(* LocalBackend.getRemoteStateDataSource: the TerraformAsset is built      *)
(* while the config argument is evaluated, so it enters the scope before   *)
(* the DataTerraformRemoteStateLocal does.                                 *)
(***************************************************************************)
getRemoteStateDataSource(t, scope, name, fromStack) ==
    LET t1 == AddChild(t, MkNode("Element", scope, Id("-state", 0, "", fromStack),
                                 "asset", NoRef))
        t2 == AddChild(t1, MkNode("Element", scope, name, "remote_state", NoRef))
    IN  [tree |-> t2, ret |-> Len(t2)]

(***************************************************************************)
(* TerraformStack.registerOutgoingCrossStackReference.                     *)
(***************************************************************************)
\* Faulty variant: the memo map is written but never consulted.
registerOutgoingCrossStackReference_NoMemo(w, self, identifier) ==
    LET t2 == AddChild(w.tree,
                       MkNode("Element", of(w.tree, self),
                              Id("cross-stack-output-", 0, identifier, <<>>),
                              "output", NoRef))
    IN  [w |-> [w EXCEPT !.tree = t2,
                         !.crossStackOutputs[self] = (identifier :> Len(t2)) @@ @],
         ret |-> Len(t2), hit |-> FALSE]

registerOutgoingCrossStackReference(w, self, identifier) ==
    IF identifier \in DOMAIN w.crossStackOutputs[self]
    THEN [w |-> w, ret |-> w.crossStackOutputs[self][identifier], hit |-> TRUE]
    ELSE LET stack == of(w.tree, self)
             t2 == AddChild(w.tree,
                            MkNode("Element", stack,
                                   Id("cross-stack-output-", 0, identifier, <<>>),
                                   "output", NoRef))
             output == Len(t2)
         IN  [w |-> [w EXCEPT !.tree = t2,
                              !.crossStackOutputs[self] =
                                  (identifier :> output) @@ @],
              ret |-> output, hit |-> FALSE]

(***************************************************************************)
(* TerraformStack.registerIncomingCrossStackReference.                     *)
(***************************************************************************)
\* The key of the memo map: String(fromStack).
\* Faulty variant: the key is the origin stack's own id instead of its path.
DataSourceKey_OwnId(t, fromStack) == <<t[fromStack].id>>

DataSourceKey(t, fromStack) == PathOf(t, fromStack)

\* Faulty variant: the memo map is written but never consulted.
registerIncomingCrossStackReference_NoMemo(w, self, fromStack) ==
    LET originBackend == backend(w.tree, fromStack)
        remoteState ==
            getRemoteStateDataSource(
                originBackend.tree, self,
                Id("cross-stack-reference-input-", 0, "", PathOf(w.tree, fromStack)),
                PathOf(w.tree, fromStack))
    IN  [w |-> [w EXCEPT !.tree = remoteState.tree,
                         !.crossStackDataSources[self] =
                             (DataSourceKey(w.tree, fromStack) :> remoteState.ret) @@ @],
         ret |-> remoteState.ret, hit |-> FALSE]

registerIncomingCrossStackReference(w, self, fromStack) ==
    LET key == DataSourceKey(w.tree, fromStack)
    IN  IF key \in DOMAIN w.crossStackDataSources[self]
        THEN [w |-> w, ret |-> w.crossStackDataSources[self][key], hit |-> TRUE]
        ELSE LET originBackend == backend(w.tree, fromStack)
                 remoteState ==
                     getRemoteStateDataSource(
                         originBackend.tree, self,
                         Id("cross-stack-reference-input-", 0, "", PathOf(w.tree, fromStack)),
                         PathOf(w.tree, fromStack))
             IN  [w |-> [w EXCEPT !.tree = remoteState.tree,
                                  !.crossStackDataSources[self] =
                                      (key :> remoteState.ret) @@ @],
                  ret |-> remoteState.ret, hit |-> FALSE]

RegisterOutgoing(self, identifier) ==
    /\ isStack(self)
    /\ LET r == registerOutgoingCrossStackReference(World, self, identifier)
       IN  /\ tree' = r.w.tree
           /\ crossStackOutputs' = r.w.crossStackOutputs
           /\ crossStackDataSources' = r.w.crossStackDataSources
           /\ last' = [op |-> "registerOutgoing", self |-> self,
                       arg |-> identifier, result |-> r.ret, hit |-> r.hit,
                       nodesBefore |-> Len(tree)]
           /\ returns' = Append(returns,
                  [op |-> "registerOutgoing", self |-> self,
                   identifier |-> identifier, fromStack |-> NoNode,
                   result |-> r.ret])
    /\ UNCHANGED <<dependencies, synthVars>>

RegisterIncoming(self, fromStack) ==
    /\ isStack(self) /\ isStack(fromStack)
    /\ LET r == registerIncomingCrossStackReference(World, self, fromStack)
       IN  /\ tree' = r.w.tree
           /\ crossStackOutputs' = r.w.crossStackOutputs
           /\ crossStackDataSources' = r.w.crossStackDataSources
           /\ last' = [op |-> "registerIncoming", self |-> self,
                       arg |-> fromStack, result |-> r.ret, hit |-> r.hit,
                       nodesBefore |-> Len(tree)]
           /\ returns' = Append(returns,
                  [op |-> "registerIncoming", self |-> self,
                   identifier |-> "none", fromStack |-> fromStack,
                   result |-> r.ret])
    /\ UNCHANGED <<dependencies, synthVars>>

(***************************************************************************)
(* The user's program building the tree: new TerraformStack(scope, id),    *)
(* new Construct(scope, id), new <TerraformElement>(scope, id, config).    *)
(* The k-th child of a scope is given the id <<"child", k>>.               *)
(***************************************************************************)
ChildIdIn(t, scope) == ChildId(Len(Children(t, scope)) + 1)

UserNodes(t) == {n \in DOMAIN t : t[n].id.tag = "child"}

\* Where the user's program scopes a construct: the App or a construct of
\* its own.
UserScopes == {App} \cup UserNodes(tree)

NewNode(node) ==
    /\ Cardinality(UserNodes(tree)) < MaxUserNodes
    /\ tree' = AddChild(tree, node)
    /\ last' = [op |-> "new", result |-> Len(tree) + 1]
    /\ UNCHANGED <<returns, synthVars>>

NewStack(scope) ==
    /\ NewNode(MkNode("Stack", scope, ChildIdIn(tree, scope), "none", NoRef))
    /\ dependencies' = dependencies @@ ((Len(tree) + 1) :> <<>>)
    /\ crossStackOutputs' = crossStackOutputs @@ ((Len(tree) + 1) :> <<>>)
    /\ crossStackDataSources' = crossStackDataSources @@ ((Len(tree) + 1) :> <<>>)

NewConstruct(scope) ==
    /\ NewNode(MkNode("Construct", scope, ChildIdIn(tree, scope), "none", NoRef))
    /\ UNCHANGED <<dependencies, crossStackOutputs, crossStackDataSources>>

\* The TerraformElement constructor looks up the element's stack, so an
\* element can only be built below a stack.
NewElement(scope, etype, ref) ==
    /\ of(tree, scope) # NoNode
    /\ NewNode(MkNode("Element", scope, ChildIdIn(tree, scope), etype, ref))
    /\ UNCHANGED <<dependencies, crossStackOutputs, crossStackDataSources>>

\* A call of the element walk on a stack.
Walk(stack) ==
    /\ isStack(stack)
    /\ last' = [op |-> "terraformElements", self |-> stack,
                result |-> terraformElements(tree, stack)]
    /\ UNCHANGED <<tree, dependencies, crossStackOutputs, crossStackDataSources,
                   returns, synthVars>>

\* A call of TerraformStack.of on a construct.
Of(construct) ==
    /\ last' = [op |-> "of", arg |-> construct, result |-> of(tree, construct),
                error |-> ofError(tree, construct)]
    /\ UNCHANGED <<tree, dependencies, crossStackOutputs, crossStackDataSources,
                   returns, synthVars>>

(***************************************************************************)
(* An application built node by node, with the element walk called on its  *)
(* stacks at any time.                                                     *)
(***************************************************************************)
InitTree ==
    /\ tree = <<MkNode("App", NoNode, Id("", 0, "", <<>>), "none", NoRef)>>
    /\ dependencies = <<>>
    /\ crossStackOutputs = <<>>
    /\ crossStackDataSources = <<>>
    /\ last = NoCall
    /\ returns = <<>>
    /\ skipValidation = FALSE
    /\ run = IdleRun
    /\ docs = <<>>

NextWalk ==
    \/ \E scope \in UserScopes : NewStack(scope)
    \/ \E scope \in UserScopes : NewConstruct(scope)
    \/ \E scope \in UserScopes, etype \in {"resource", "backend"} :
          NewElement(scope, etype, NoRef)
    \/ \E stack \in AllStacks : Walk(stack)
    \/ \E construct \in Nodes : Of(construct)

SpecWalk == InitTree /\ [][NextWalk]_vars

(***************************************************************************)
(* An application of up to MaxRefStacks stacks, nested or not, built       *)
(* first; then one of the cross-stack register methods is called on its    *)
(* stacks up to MaxCalls times.                                            *)
(***************************************************************************)
Identifiers == {"x", "y"}

BuildStacks ==
    \E scope \in UserScopes :
        /\ Cardinality(AllStacks) < MaxRefStacks
        /\ returns = <<>>
        /\ NewStack(scope)

NextOutgoing ==
    \/ BuildStacks
    \/ \E self \in AllStacks, identifier \in Identifiers :
          /\ Len(returns) < MaxCalls
          /\ RegisterOutgoing(self, identifier)

SpecOutgoing == InitTree /\ [][NextOutgoing]_vars

NextIncoming ==
    \/ BuildStacks
    \/ \E self \in AllStacks, fromStack \in AllStacks :
          /\ Len(returns) < MaxCalls
          /\ RegisterIncoming(self, fromStack)

SpecIncoming == InitTree /\ [][NextIncoming]_vars

(***************************************************************************)
(* Resolution of one element's configuration in a preparing run.  A value  *)
(* that refers to another stack makes the resolver register the synthetic  *)
(* output in the origin stack and the remote-state lookup in the stack     *)
(* being resolved.                                                         *)
(***************************************************************************)
resolvePreparing(w, stack, e) ==
    LET ref == w.tree[e].ref
    IN  IF ref = NoRef \/ ref.origin = stack THEN w
        ELSE LET out == registerOutgoingCrossStackReference(w, ref.origin,
                                                            ref.identifier)
             IN  registerIncomingCrossStackReference(out.w, stack, ref.origin).w

(***************************************************************************)
(* TerraformStack.prepareStack: the walk is taken once, then every element *)
(* of it is resolved in order, each resolution seeing what the earlier     *)
(* ones added.                                                             *)
(***************************************************************************)
RECURSIVE prepareEach(_, _, _, _)
prepareEach(w, stack, elements, i) ==
    IF i > Len(elements) THEN w
    ELSE prepareEach(resolvePreparing(w, stack, elements[i]), stack, elements, i + 1)

prepareStack(w, stack) ==
    prepareEach(w, stack, terraformElements(w.tree, stack), 1)

(***************************************************************************)
(* resolve: every deferred value reachable in a structure is replaced by   *)
(* what it resolves to, again and again until none is left or the depth    *)
(* limit is hit; map entries that resolve to undefined are dropped.        *)
(***************************************************************************)
\* What the deferred values of the model produce: a literal, a further
\* deferred value, a mapping that holds one, and itself.
TokenValue(s) ==
    CASE s = "t1" -> Scalar("1")
      [] s = "t2" -> Token("t1")
      [] s = "t3" -> Map("a" :> Token("t2"))
      [] OTHER -> Token(s)

DepthExceeded == Val("error", "ResolutionDepthExceeded", NoId, EmptyFcn, {})

RECURSIVE resolveAt(_, _)
RECURSIVE resolveValue(_, _)

\* The entries of a mapping, resolved: undefined ones dropped, and the
\* failure of one is the failure of the whole.
resolvedEntries(r) ==
    IF \E k \in DOMAIN r : r[k].kind = "error" THEN DepthExceeded
    ELSE Map([k \in {j \in DOMAIN r : r[j].kind # "undefined"} |-> r[k]])

resolveValue(x, depth) ==
    IF x.kind = "token"
    THEN IF depth >= MaxResolveDepth THEN DepthExceeded
         ELSE resolveAt(TokenValue(x.s), depth + 1)
    ELSE IF x.kind = "map"
    THEN CHOOSE out \in {resolvedEntries(r) :
                            r \in {[k \in Keys(x) |-> resolveAt(x.m[k], depth)]}} :
             TRUE
    ELSE x

\* (x is evaluated once, then resolved.)
resolveAt(x, depth) ==
    CHOOSE out \in {resolveValue(v, depth) : v \in {x}} : TRUE

resolve(x) == resolveAt(x, 0)

(***************************************************************************)
(* deepMerge(target, source): two mappings at the same key are merged key  *)
(* by key, in every other case the source's value takes the key.           *)
(***************************************************************************)
RECURSIVE deepMerge(_, _)
RECURSIVE mergeInto(_, _)

mergeInto(target, source) ==
    Map([k \in Keys(target) \cup Keys(source) |->
            IF k \notin Keys(source) THEN target.m[k]
            ELSE IF k \in Keys(target) /\ isObject(target.m[k])
                                       /\ isObject(source.m[k])
                 THEN deepMerge(target.m[k], source.m[k])
                 ELSE source.m[k]])

\* (target and source are evaluated once, then merged.)
deepMerge(target, source) ==
    CHOOSE out \in {mergeInto(x, y) : x \in {target}, y \in {source}} : TRUE

\* Faulty variant: the sources are merged last to first.
RECURSIVE mergeEach_Reversed(_, _, _)
mergeEach_Reversed(target, sources, i) ==
    IF i > Len(sources) THEN target
    ELSE deepMerge(mergeEach_Reversed(target, sources, i + 1), sources[i])

\* for (const source of sources) deepMerge(target, source)
RECURSIVE mergeEach(_, _, _)
mergeEach(target, sources, i) ==
    IF i > Len(sources) THEN target
    ELSE mergeEach(deepMerge(target, sources[i]), sources, i + 1)

(***************************************************************************)
(* TerraformStack.addOverride(path, value), path.split(".") given as its   *)
(* parts: the mappings on the way are made where rawOverrides holds none,  *)
(* and the value is put under the last part.                               *)
(***************************************************************************)
RECURSIVE addOverride(_, _, _)
addOverride(curr, parts, value) ==
    IF Len(parts) = 1 THEN Map((parts[1] :> value) @@ curr.m)
    ELSE LET key == Head(parts)
             next == IF key \in Keys(curr) /\ isObject(curr.m[key])
                     THEN curr.m[key] ELSE EmptyMap
         IN  Map((key :> addOverride(next, Tail(parts), value)) @@ curr.m)

(***************************************************************************)
(* TerraformStack.toTerraform: the walk is taken anew and the fragments of *)
(* its elements are merged in walk order; every element contributes the    *)
(* block keyed by its own logical id.                                      *)
(***************************************************************************)
\* this.cdktfVersion: what the App has put into the context under
\* "cdktfVersion".
cdktfVersion == Scalar("cdktfVersion")

\* Faulty variant: the stack's metadata names no backend.
stackMetadata_NoBackend(t, stack) ==
    Map(("version" :> cdktfVersion) @@ ("stackName" :> Name(t[stack].id)))

\* The stack's own metadata, before the elements' metadata is merged in.
stackMetadata(t, stack) ==
    Map(("version" :> cdktfVersion)
        @@ ("stackName" :> Name(t[stack].id))
        @@ ("backend" :> Scalar("local"))
        @@ (IF Keys(t[stack].rawOverrides) # {}
            THEN "overrides" :> Map("stack" :> Array(Keys(t[stack].rawOverrides)))
            ELSE EmptyFcn))

\* elements.map((e) => resolve(this, e.toMetadata())), merged into the
\* stack's metadata in walk order.
metadataOf(t, stack) ==
    LET elements == terraformElements(t, stack)
    IN  mergeEach(stackMetadata(t, stack),
                  [i \in DOMAIN elements |-> resolve(t[elements[i]].metadata)], 1)

\* elements.map((e) => resolve(this, e.toTerraform()))
fragmentsOf(t, stack) ==
    LET elements == terraformElements(t, stack)
    IN  [i \in DOMAIN elements |-> resolve(t[elements[i]].fragment)]

\* Faulty variant: the overrides are merged before the fragments.
mergeDocument_OverridesFirst(t, stack) ==
    mergeEach(deepMerge(Map("//" :> Map("metadata" :> metadataOf(t, stack))),
                        t[stack].rawOverrides),
              fragmentsOf(t, stack), 1)

\* tf as it is handed to the final resolve: the metadata under "//", then
\* the fragments in walk order, then rawOverrides.
mergeDocument(t, stack) ==
    deepMerge(mergeEach(Map("//" :> Map("metadata" :> metadataOf(t, stack))),
                        fragmentsOf(t, stack), 1),
              t[stack].rawOverrides)

\* Faulty variant: the document is made from the walk as it was when the run began.
toTerraform_CachedWalk(t, stack) ==
    [elements |-> SelectSeq(terraformElements(t, stack),
                            LAMBDA n : n <= run.base),
     tf |-> resolve(mergeDocument(t, stack))]

\* Faulty variant: the merged document is returned as it is.
toTerraform_Unresolved(t, stack) ==
    [elements |-> terraformElements(t, stack), tf |-> mergeDocument(t, stack)]

\* The document: tf, and the elements whose blocks it holds (the block of an
\* element made without a fragment of its own is carried by the element's
\* place in `elements`).
toTerraform(t, stack) ==
    [elements |-> terraformElements(t, stack),
     tf |-> resolve(mergeDocument(t, stack))]

(***************************************************************************)
(* The validation every stack attaches to itself in its constructor        *)
(* (ValidateProviderPresence): resources below the stack need a provider   *)
(* below the stack.                                                        *)
(***************************************************************************)
RECURSIVE findAll(_, _)
RECURSIVE findAllOver(_, _, _)

findAll(t, node) == <<node>> \o findAllOver(t, Children(t, node), 1)

findAllOver(t, children, i) ==
    IF i > Len(children) THEN <<>>
    ELSE findAll(t, children[i]) \o findAllOver(t, children, i + 1)

HasBelow(t, stack, etype) ==
    \E i \in DOMAIN findAll(t, stack) :
        LET n == findAll(t, stack)[i]
        IN  isElement(t, n) /\ t[n].etype = etype

validate(t, node) ==
    IF isStackIn(t, node) /\ HasBelow(t, node, "resource")
          /\ ~HasBelow(t, node, "provider")
    THEN <<[path |-> PathOf(t, node), message |-> "missing provider"]>>
    ELSE <<>>

\* Faulty variant: the run stops at the first validation that reports.
RECURSIVE validateEach_FirstOnly(_, _, _)
validateEach_FirstOnly(t, nodes, i) ==
    IF i > Len(nodes) THEN <<>>
    ELSE IF validate(t, nodes[i]) # <<>> THEN validate(t, nodes[i])
    ELSE validateEach_FirstOnly(t, nodes, i + 1)

RECURSIVE validateEach(_, _, _)
validateEach(t, nodes, i) ==
    IF i > Len(nodes) THEN <<>>
    ELSE validate(t, nodes[i]) \o validateEach(t, nodes, i + 1)

\* Every stack of the application, in pre-order.
StacksOf(t) == SelectSeq(findAll(t, App), LAMBDA n : isStackIn(t, n))

(***************************************************************************)
(* The synthesis run: Idle -> Validating -> Preparing -> Synthesizing ->   *)
(* Done, or Error.                                                         *)
(***************************************************************************)
treeVars == <<tree, crossStackOutputs, crossStackDataSources>>

StartSynth ==
    /\ run.phase \in {"Idle", "Done"}
    /\ run.count < MaxRuns
    /\ run' = [phase |-> "Validating", todo |-> <<>>, base |-> Len(tree),
               errors |-> <<>>, count |-> run.count + 1, previous |-> docs,
               prepared |-> <<>>, synthesized |-> <<>>]
    /\ last' = [op |-> "synth"]
    /\ UNCHANGED <<treeVars, dependencies, returns, skipValidation, docs>>

\* Faulty variant: the skipValidation option is not looked at.
Validate_NoSkip ==
    /\ run.phase = "Validating"
    /\ LET errors == validateEach(tree, findAll(tree, App), 1)
       IN  run' = IF errors # <<>>
                  THEN [run EXCEPT !.phase = "Error", !.errors = errors]
                  ELSE [run EXCEPT !.phase = "Preparing", !.todo = StacksOf(tree)]
    /\ UNCHANGED <<treeVars, dependencies, last, returns, skipValidation, docs>>

Validate ==
    /\ run.phase = "Validating"
    /\ LET errors == validateEach(tree, findAll(tree, App), 1)
       IN  run' = IF errors # <<>> /\ ~skipValidation
                  THEN [run EXCEPT !.phase = "Error", !.errors = errors]
                  ELSE [run EXCEPT !.phase = "Preparing", !.todo = StacksOf(tree)]
    /\ UNCHANGED <<treeVars, dependencies, last, returns, skipValidation, docs>>

Prepare ==
    /\ run.phase = "Preparing"
    /\ run.todo # <<>>
    /\ LET w == prepareStack(World, Head(run.todo))
       IN  /\ tree' = w.tree
           /\ crossStackOutputs' = w.crossStackOutputs
           /\ crossStackDataSources' = w.crossStackDataSources
    /\ run' = [run EXCEPT !.todo = Tail(@),
                          !.prepared = Append(@, Head(run.todo))]
    /\ UNCHANGED <<dependencies, last, returns, skipValidation, docs>>

\* Faulty variant: synthesis begins while stacks are still to be prepared.
EndPreparing_Early ==
    /\ run.phase = "Preparing"
    /\ run' = [run EXCEPT !.phase = "Synthesizing", !.todo = StacksOf(tree)]
    /\ UNCHANGED <<treeVars, dependencies, last, returns, skipValidation, docs>>

EndPreparing ==
    /\ run.phase = "Preparing"
    /\ run.todo = <<>>
    /\ run' = [run EXCEPT !.phase = "Synthesizing", !.todo = StacksOf(tree)]
    /\ UNCHANGED <<treeVars, dependencies, last, returns, skipValidation, docs>>

Synthesize ==
    /\ run.phase = "Synthesizing"
    /\ run.todo # <<>>
    /\ docs' = (Head(run.todo) :> toTerraform(tree, Head(run.todo))) @@ docs
    /\ run' = [run EXCEPT !.todo = Tail(@),
                          !.synthesized = Append(@, Head(run.todo))]
    /\ UNCHANGED <<treeVars, dependencies, last, returns, skipValidation>>

EndSynthesizing ==
    /\ run.phase = "Synthesizing"
    /\ run.todo = <<>>
    /\ run' = [run EXCEPT !.phase = "Done"]
    /\ UNCHANGED <<treeVars, dependencies, last, returns, skipValidation, docs>>

(***************************************************************************)
(* An application of up to MaxSynthNodes constructs (stacks, providers,    *)
(* resources that may refer to a value of any stack), built first and then *)
(* synthesized up to MaxRuns times.                                        *)
(***************************************************************************)
RefChoices ==
    {NoRef} \cup {[origin |-> a, identifier |-> x] : a \in AllStacks, x \in Identifiers}

Building ==
    /\ run.phase = "Idle"
    /\ Cardinality(UserNodes(tree)) < MaxSynthNodes

InitSynth ==
    /\ tree = <<MkNode("App", NoNode, Id("", 0, "", <<>>), "none", NoRef)>>
    /\ dependencies = <<>>
    /\ crossStackOutputs = <<>>
    /\ crossStackDataSources = <<>>
    /\ last = NoCall
    /\ returns = <<>>
    /\ skipValidation \in BOOLEAN
    /\ run = IdleRun
    /\ docs = <<>>

NextSynth ==
    \/ \E scope \in UserScopes : Building /\ NewStack(scope)
    \/ \E scope \in UserScopes : Building /\ NewElement(scope, "provider", NoRef)
    \/ \E scope \in UserScopes, ref \in RefChoices :
          Building /\ NewElement(scope, "resource", ref)
    \/ StartSynth
    \/ Validate
    \/ Prepare
    \/ EndPreparing
    \/ Synthesize
    \/ EndSynthesizing

SpecSynth == InitSynth /\ [][NextSynth]_vars

\* app.synth() is one sequential procedure: a run that has begun takes its
\* next step.  The applications of this specification hold no cross-stack
\* references.
RunStep ==
    Validate \/ Prepare \/ EndPreparing \/ Synthesize \/ EndSynthesizing

NextSynthFair ==
    \/ \E scope \in UserScopes : Building /\ NewStack(scope)
    \/ \E scope \in UserScopes, etype \in {"provider", "resource"} :
          Building /\ NewElement(scope, etype, NoRef)
    \/ StartSynth
    \/ RunStep

SpecSynthFair == InitSynth /\ [][NextSynthFair]_vars /\ WF_vars(RunStep)

(***************************************************************************)
(* A stack that is given elements with fragments and metadata of their own *)
(* and raw overrides, and is synthesized with toTerraform.                 *)
(***************************************************************************)
\* The addOverride calls made: the path as path.split(".") gives it, and
\* the value.
OverrideChoices ==
    {[path |-> <<"resource", "r">>, value |-> Scalar("o")],
     [path |-> <<"resource", "r">>, value |-> Map("b" :> Scalar("o"))],
     [path |-> <<"resource", "r">>, value |-> Token("t2")],
     [path |-> <<"resource", "r", "a">>, value |-> Scalar("o")],
     [path |-> <<"resource", "r", "a">>, value |-> Undefined],
     [path |-> <<"resource">>, value |-> Token("loop")],
     [path |-> <<"//">>, value |-> Scalar("o")],
     [path |-> <<"//", "metadata", "backend">>, value |-> Scalar("o")]}

\* What the elements return from toTerraform() and toMetadata().
ElementChoices ==
    {[etype |-> "resource", metadata |-> EmptyMap,
      fragment |-> Map("resource" :> Map("r" :> Token("t1")))],
     [etype |-> "resource", metadata |-> EmptyMap,
      fragment |-> Map("resource" :> Map("r" :> Map("a" :> Scalar("1"))))],
     [etype |-> "resource", metadata |-> EmptyMap,
      fragment |-> Map("resource" :> Map("r" :> Map("b" :> Token("t3"))))],
     [etype |-> "backend", metadata |-> Map("backend" :> Scalar("s3")),
      fragment |-> Map("terraform" :> Map("backend" :> Scalar("s3")))]}

\* stack.addOverride(path, value); the call is put on record in `returns`.
AddOverride(self, path, value) ==
    /\ Len(returns) < MaxOverrides
    /\ tree' = [tree EXCEPT ![self].rawOverrides = addOverride(@, path, value)]
    /\ last' = [op |-> "addOverride", self |-> self]
    /\ returns' = Append(returns, [op |-> "addOverride", self |-> self,
                                   path |-> path, value |-> value])
    /\ UNCHANGED <<dependencies, crossStackOutputs, crossStackDataSources,
                   synthVars>>

NewElementWith(scope, choice) ==
    /\ Cardinality({n \in Nodes : isElement(tree, n)}) < MaxFragments
    /\ NewNode([MkNode("Element", scope, ChildIdIn(tree, scope), choice.etype,
                        NoRef)
                   EXCEPT !.fragment = choice.fragment,
                          !.metadata = choice.metadata])
    /\ UNCHANGED <<dependencies, crossStackOutputs, crossStackDataSources>>

\* stack.toTerraform()
ToTerraform(self) ==
    /\ last' = [op |-> "toTerraform", self |-> self,
                result |-> toTerraform(tree, self)]
    /\ UNCHANGED <<tree, dependencies, crossStackOutputs, crossStackDataSources,
                   returns, synthVars>>

InitMerge ==
    /\ tree = <<MkNode("App", NoNode, Id("", 0, "", <<>>), "none", NoRef),
                MkNode("Stack", App, ChildId(1), "none", NoRef)>>
    /\ dependencies = (2 :> <<>>)
    /\ crossStackOutputs = (2 :> <<>>)
    /\ crossStackDataSources = (2 :> <<>>)
    /\ last = NoCall
    /\ returns = <<>>
    /\ skipValidation = FALSE
    /\ run = IdleRun
    /\ docs = <<>>

NextMerge ==
    \/ \E scope \in AllStacks, choice \in ElementChoices :
          NewElementWith(scope, choice)
    \/ \E self \in AllStacks, choice \in OverrideChoices :
          AddOverride(self, choice.path, choice.value)
    \/ \E self \in AllStacks : ToTerraform(self)

SpecMerge == InitMerge /\ [][NextMerge]_vars

(***************************************************************************)
(* TerraformStack.allocateLogicalId: the ids of the scopes of the element  *)
(* that make up its logical id.                                            *)
(***************************************************************************)
EXCLUDE_STACK_ID_FROM_LOGICAL_IDS == "excludeStackIdFromLogicalIds"

ALLOW_SEP_CHARS_IN_LOGICAL_IDS == "allowSepCharsInLogicalIds"

\* node.scopes: the constructs from the root down to the node, the node
\* itself last.
RECURSIVE scopes(_, _)
scopes(t, n) ==
    IF t[n].scope = NoNode THEN <<n>> ELSE Append(scopes(t, t[n].scope), n)

\* node.tryGetContext(key): true when the key is set on the node or on a
\* scope of it.
tryGetContext(t, n, key) ==
    \E i \in DOMAIN scopes(t, n) : key \in t[scopes(t, n)[i]].context

\* Array.prototype.indexOf, counting from 0; -1 when the list holds no x.
indexOf(list, x) ==
    IF \E i \in DOMAIN list : list[i] = x
    THEN (CHOOSE i \in DOMAIN list :
             list[i] = x /\ \A j \in 1..(i - 1) : list[j] # x) - 1
    ELSE -1

\* list.slice(start), start counted from 0.
slice(list, start) == SubSeq(list, start + 1, Len(list))

\* makeUniqueId joins the components with a separator; the identifier is
\* kept as the list of the components joined.
makeUniqueId(components, allowSepChars) == components

\* Faulty variant: the scopes are cut at the stack whether the flag is set
\* or not.
allocateLogicalId_AlwaysFromStack(t, self, n) ==
    LET stack == IF isElement(t, n) THEN of(t, n) ELSE self
        components == [i \in DOMAIN slice(scopes(t, n), indexOf(scopes(t, n), stack) + 1)
                         |-> t[slice(scopes(t, n), indexOf(scopes(t, n), stack) + 1)[i]].id]
    IN  makeUniqueId(components, tryGetContext(t, n, ALLOW_SEP_CHARS_IN_LOGICAL_IDS))

\* The empty list stands for the empty string returned when no component is
\* left.
allocateLogicalId(t, self, n) ==
    LET stack == IF isElement(t, n) THEN of(t, n) ELSE self
        stackIndex == IF tryGetContext(t, n, EXCLUDE_STACK_ID_FROM_LOGICAL_IDS)
                      THEN indexOf(scopes(t, n), stack)
                      ELSE 0
        below == slice(scopes(t, n), stackIndex + 1)
        components == [i \in DOMAIN below |-> t[below[i]].id]
    IN  IF Len(components) > 0
        THEN makeUniqueId(components,
                          tryGetContext(t, n, ALLOW_SEP_CHARS_IN_LOGICAL_IDS))
        ELSE <<>>

\* stack.getLogicalId(tfElement)
GetLogicalId(self, n) ==
    /\ isStack(self)
    /\ last' = [op |-> "getLogicalId", self |-> self, arg |-> n,
                result |-> allocateLogicalId(tree, self, n)]
    /\ UNCHANGED <<tree, dependencies, crossStackOutputs, crossStackDataSources,
                   returns, synthVars>>

\* An application whose context may hold the feature flags, built node by
\* node, with elements asked for their logical ids.
FeatureFlags == {EXCLUDE_STACK_ID_FROM_LOGICAL_IDS, ALLOW_SEP_CHARS_IN_LOGICAL_IDS}

InitLogical ==
    /\ \E flags \in SUBSET FeatureFlags :
          tree = <<[MkNode("App", NoNode, Id("", 0, "", <<>>), "none", NoRef)
                      EXCEPT !.context = flags]>>
    /\ dependencies = <<>>
    /\ crossStackOutputs = <<>>
    /\ crossStackDataSources = <<>>
    /\ last = NoCall
    /\ returns = <<>>
    /\ skipValidation = FALSE
    /\ run = IdleRun
    /\ docs = <<>>

NextLogical ==
    \/ \E scope \in UserScopes : NewStack(scope)
    \/ \E scope \in UserScopes : NewConstruct(scope)
    \/ \E scope \in UserScopes : NewElement(scope, "resource", NoRef)
    \/ \E n \in Nodes :
          isElement(tree, n) /\ GetLogicalId(of(tree, n), n)

SpecLogical == InitLogical /\ [][NextLogical]_vars

(***************************************************************************)
(* Reads of a stack's backend while the application is built.  The getter  *)
(* may add the LocalBackend it returns to the tree.  `again` tells that    *)
(* the call before this one was a read of the same stack, and `previous`   *)
(* what that read returned.                                                *)
(***************************************************************************)
GetBackend(self) ==
    /\ isStack(self)
    /\ tree' = backend(tree, self).tree
    /\ last' = [op |-> "backend", self |-> self,
                result |-> backend(tree, self).ret,
                nodesBefore |-> Len(tree),
                again |-> (last.op = "backend" /\ last.self = self),
                previous |-> IF last.op = "backend" /\ last.self = self
                             THEN last.result ELSE NoNode]
    /\ UNCHANGED <<dependencies, crossStackOutputs, crossStackDataSources,
                   returns, synthVars>>

NextBackend ==
    \/ \E scope \in UserScopes : NewStack(scope)
    \/ \E scope \in UserScopes : NewConstruct(scope)
    \/ \E scope \in UserScopes : NewElement(scope, "backend", NoRef)
    \/ \E self \in AllStacks : GetBackend(self)

SpecBackend == InitTree /\ [][NextBackend]_vars

(***************************************************************************)
(* A tree that grows between two element walks of a stack: the first walk  *)
(* is put on record in `returns`, nodes are added, and the stack is walked *)
(* again.                                                                  *)
(***************************************************************************)
FirstWalk(stack) ==
    /\ returns = <<>>
    /\ isStack(stack)
    /\ last' = [op |-> "terraformElements", self |-> stack,
                result |-> terraformElements(tree, stack)]
    /\ returns' = <<last'>>
    /\ UNCHANGED <<tree, dependencies, crossStackOutputs, crossStackDataSources,
                   synthVars>>

LaterWalk(stack) ==
    /\ returns # <<>>
    /\ returns[1].self = stack
    /\ Walk(stack)

NextGrow ==
    \/ \E scope \in UserScopes : NewStack(scope)
    \/ \E scope \in UserScopes : NewConstruct(scope)
    \/ \E scope \in UserScopes : NewElement(scope, "resource", NoRef)
    \/ \E stack \in AllStacks : FirstWalk(stack)
    \/ \E stack \in AllStacks : LaterWalk(stack)

SpecGrow == InitTree /\ [][NextGrow]_vars

(***************************************************************************)
(* Reachability in a dependency graph, by closure of the successor sets:   *)
(* Reach(deps, from) is the set of stacks reachable from `from` along one  *)
(* or more recorded edges.                                                 *)
(***************************************************************************)
Successors(deps, S) == {b \in DOMAIN deps : \E a \in S : Includes(deps[a], b)}

RECURSIVE Closure(_, _)
Closure(deps, S) ==
    LET N == S \cup Successors(deps, S)
    IN  IF N = S THEN S ELSE Closure(deps, N)

Reach(deps, from) == Closure(deps, Successors(deps, {from}))

NoDuplicates(list) ==
    \A i, j \in DOMAIN list : list[i] = list[j] => i = j

\* C1: the stack dependency graph is acyclic in every reachable state: no
\* stack reaches itself along one or more dependency edges, whatever
\* addDependency calls were made (a stack given itself included).
C1_Acyclic ==
    \A s \in AllStacks : s \notin Reach(dependencies, s)

\* C2: addDependency(from, to) fails with the cyclic-dependency error when
\* `to` already depends on `from` directly or through a chain of recorded
\* edges, and in every other case it does not fail.
C2_FailsExactlyOnCycle ==
    last.op = "addDependency" =>
        IF last.self \in Reach(last.before, last.arg)
        THEN last.result = "CyclicDependency"
        ELSE last.result = "ok"

\* C3: a rejected addDependency leaves the graph unchanged: when the call
\* fails with the cyclic-dependency error the dependency list of every stack
\* is what it was before the call.
C3_RejectedLeavesGraph ==
    (last.op = "addDependency" /\ last.result = "CyclicDependency")
        => dependencies = last.before

\* C3 witness: with A -> B the only edge, addDependency(B, A) was rejected.
C3_Witness ==
    /\ last.op = "addDependency"
    /\ last.result = "CyclicDependency"
    /\ last.self # last.arg
    /\ TotalEdges(last.before) = 1
    /\ last.before[last.arg] = <<last.self>>

\* C4: addDependency is idempotent: adding an edge that is already recorded
\* succeeds without error and leaves the graph unchanged, and the dependency
\* list of a stack holds each dependency at most once.
C4_Idempotent ==
    /\ (last.op = "addDependency" /\ Includes(last.before[last.self], last.arg))
          => (last.result = "ok" /\ dependencies = last.before)
    /\ \A s \in AllStacks : NoDuplicates(dependencies[s])

\* C5: dependsOn(from, to) returns true exactly when `to` is reachable from
\* `from` along one or more recorded dependency edges.
C5_DependsOnIsReachability ==
    last.op = "dependsOn" =>
        (last.result = "true" <=> last.arg \in Reach(last.before, last.self))

(***************************************************************************)
(* Tree relations used to state the claims.                                *)
(***************************************************************************)
RECURSIVE Ancestors(_)
Ancestors(n) ==
    IF tree[n].scope = NoNode THEN {}
    ELSE {tree[n].scope} \cup Ancestors(tree[n].scope)

\* The first stack met on the way up from a node's scope (NoNode if none).
RECURSIVE NearestStack(_)
NearestStack(n) ==
    IF tree[n].scope = NoNode THEN NoNode
    ELSE IF tree[tree[n].scope].kind = "Stack" THEN tree[n].scope
    ELSE NearestStack(tree[n].scope)

\* The elements a stack owns: below it, with no other stack in between.
OwnedElements(s) ==
    {n \in Nodes : tree[n].kind = "Element" /\ NearestStack(n) = s}

\* The node on the way from `l` down to `n` that is scoped to `l`.
Branch(l, n) ==
    CHOOSE m \in Ancestors(n) \cup {n} : tree[m].scope = l

\* Depth-first pre-order with children in insertion order: an ancestor comes
\* before its descendants, and otherwise two nodes come in the order in
\* which their branches were inserted below their deepest common ancestor.
PreOrderBefore(a, b) ==
    \/ a \in Ancestors(b)
    \/ /\ b \notin Ancestors(a)
       /\ a # b
       /\ LET common == Ancestors(a) \cap Ancestors(b)
              lca == CHOOSE l \in common : \A m \in common : m = l \/ m \in Ancestors(l)
          IN  Branch(lca, a) < Branch(lca, b)

\* C6: registerOutgoing is memoized by identifier: every call on a stack with
\* the same identifier returns the very same synthetic output element, and
\* the stack's tree never holds more than one synthetic cross-stack output
\* for one identifier.
C6_OutgoingMemoized ==
    /\ \A i, j \in DOMAIN returns :
          (/\ returns[i].op = "registerOutgoing"
           /\ returns[j].op = "registerOutgoing"
           /\ returns[i].self = returns[j].self
           /\ returns[i].identifier = returns[j].identifier)
              => returns[i].result = returns[j].result
    /\ \A i \in DOMAIN returns :
          returns[i].op = "registerOutgoing" =>
              /\ isElement(tree, returns[i].result)
              /\ tree[returns[i].result].etype = "output"
              /\ tree[returns[i].result].id.identifier = returns[i].identifier
              /\ of(tree, returns[i].result) = returns[i].self
    /\ \A s \in AllStacks, x \in Identifiers :
          Cardinality({n \in OwnedElements(s) :
                          /\ tree[n].etype = "output"
                          /\ tree[n].id.tag = "cross-stack-output-"
                          /\ tree[n].id.identifier = x}) <= 1

\* C6 witness: a stack was asked twice for the same identifier and once for
\* another.
C6_Witness ==
    \E i, j, k \in DOMAIN returns :
        /\ i < j
        /\ returns[i].op = "registerOutgoing"
        /\ returns[j].op = "registerOutgoing"
        /\ returns[k].op = "registerOutgoing"
        /\ returns[i].self = returns[j].self
        /\ returns[i].self = returns[k].self
        /\ returns[i].identifier = returns[j].identifier
        /\ returns[i].identifier # returns[k].identifier

\* The lookups and the state assets a consuming stack holds for an origin.
LookupsFor(s, o, etype) ==
    {n \in OwnedElements(s) :
        /\ tree[n].etype = etype
        /\ tree[n].id.path = PathOf(tree, o)}

\* C7: registerIncoming is memoized per origin stack: within one consuming
\* stack every call for the same origin returns the same remote-state lookup
\* element, the lookup and its state asset are created on the first call
\* only, and calls for different origins return different lookups.
C7_IncomingMemoized ==
    /\ \A i, j \in DOMAIN returns :
          (/\ returns[i].op = "registerIncoming"
           /\ returns[j].op = "registerIncoming"
           /\ returns[i].self = returns[j].self)
              => (returns[i].fromStack = returns[j].fromStack
                    <=> returns[i].result = returns[j].result)
    /\ \A i \in DOMAIN returns :
          returns[i].op = "registerIncoming" =>
              /\ LookupsFor(returns[i].self, returns[i].fromStack, "remote_state")
                    = {returns[i].result}
              /\ Cardinality(LookupsFor(returns[i].self, returns[i].fromStack,
                                        "asset")) = 1
    /\ (/\ last.op = "registerIncoming"
        /\ \E i \in 1..(Len(returns) - 1) :
              /\ returns[i].op = "registerIncoming"
              /\ returns[i].self = last.self
              /\ returns[i].fromStack = last.arg)
          => Len(tree) = last.nodesBefore

\* C7 witness: one consuming stack asked twice for one origin and once for
\* another origin.
C7_Witness ==
    \E i, j, k \in DOMAIN returns :
        /\ i < j
        /\ returns[i].op = "registerIncoming"
        /\ returns[j].op = "registerIncoming"
        /\ returns[k].op = "registerIncoming"
        /\ returns[i].self = returns[j].self
        /\ returns[i].self = returns[k].self
        /\ returns[i].fromStack = returns[j].fromStack
        /\ returns[i].fromStack # returns[k].fromStack

\* C9: the element walk from a stack returns, in depth-first pre-order with
\* children in insertion order, every descendant that is an element and is
\* reachable without passing through another stack; no node at or below a
\* nested stack is returned.
C9_WalkIsBoundedPreOrder ==
    last.op = "terraformElements" =>
        /\ {last.result[i] : i \in DOMAIN last.result} = OwnedElements(last.self)
        /\ \A i, j \in DOMAIN last.result :
              i < j => PreOrderBefore(last.result[i], last.result[j])

\* C9 witness: a walk that returned an element and left out an element of a
\* nested stack.
C9_Witness ==
    /\ last.op = "terraformElements"
    /\ Len(last.result) > 0
    /\ \E n \in Nodes :
          /\ isElement(tree, n)
          /\ last.self \in Ancestors(n)
          /\ NearestStack(n) # last.self

(***************************************************************************)
(* What the claims about a synthesis run speak of.                         *)
(***************************************************************************)
\* The cross-stack uses in the application: an element owned by `consumer`
\* whose configuration refers to `identifier` of another stack `origin`.
CrossRefs ==
    {[consumer |-> NearestStack(e), origin |-> tree[e].ref.origin,
      identifier |-> tree[e].ref.identifier] :
        e \in {n \in Nodes : /\ tree[n].kind = "Element"
                             /\ tree[n].ref # NoRef
                             /\ tree[n].ref.origin # NearestStack(n)}}

\* The blocks of one kind in the document synthesized for a stack.
DocBlocks(s, etype) ==
    {n \in {docs[s].elements[i] : i \in DOMAIN docs[s].elements} :
        tree[n].etype = etype}

\* C8: when a stack consumes a value produced by another stack, a synthesis
\* run gives the producer's document exactly one new output block for that
\* value and the consumer's document exactly one new remote-state data
\* source for that producer, and a second identical run adds nothing more.
C8_CrossStackEndToEnd ==
    run.phase = "Done" =>
        /\ \A r \in CrossRefs :
              /\ Cardinality({n \in DocBlocks(r.origin, "output") :
                                 tree[n].id.identifier = r.identifier}) = 1
              /\ Cardinality({n \in DocBlocks(r.consumer, "remote_state") :
                                 tree[n].id.path = PathOf(tree, r.origin)}) = 1
        /\ \A s \in AllStacks :
              /\ Cardinality(DocBlocks(s, "output"))
                    = Cardinality({r.identifier : r \in {q \in CrossRefs : q.origin = s}})
              /\ Cardinality(DocBlocks(s, "remote_state"))
                    = Cardinality({r.origin : r \in {q \in CrossRefs : q.consumer = s}})
        /\ run.count > 1 => docs = run.previous

\* C8 witness: the second run of an application with exactly one cross-stack
\* use has ended.
C8_Witness ==
    /\ run.phase = "Done"
    /\ run.count = 2
    /\ Cardinality(CrossRefs) = 1

\* C10: the element walk is never cached: every element added to a stack's
\* tree during the preparation pass of a run is in that stack's document
\* synthesized by the same run.
C10_PreparationAdditionsSynthesized ==
    run.phase = "Done" =>
        \A n \in (run.base + 1)..Len(tree) :
            tree[n].kind = "Element" =>
                \E i \in DOMAIN docs[NearestStack(n)].elements :
                    docs[NearestStack(n)].elements[i] = n

\* C10 witness: a run has ended in which preparing one stack added a
\* synthetic output to another stack and a remote-state lookup to its own.
C10_Witness ==
    /\ run.phase = "Done"
    /\ \E n, m \in (run.base + 1)..Len(tree) :
          /\ tree[n].etype = "output"
          /\ tree[m].etype = "remote_state"
          /\ NearestStack(n) # NearestStack(m)

(***************************************************************************)
(* The stages of a synthesis run.                                          *)
(***************************************************************************)
\* The stage steps a run may take: forward by one stage, or to the error
\* state; a finished run may be followed by the next run.
ForwardSteps ==
    {<<"Idle", "Validating">>, <<"Validating", "Preparing">>,
     <<"Preparing", "Synthesizing">>, <<"Synthesizing", "Done">>,
     <<"Done", "Validating">>}
    \cup {<<p, "Error">> : p \in {"Idle", "Validating", "Preparing",
                                    "Synthesizing"}}

InSeq(list, x) == \E i \in DOMAIN list : list[i] = x

\* The stacks that held a resource and no provider when the current run
\* began (nodes up to run.base; the tree only grows): the stacks whose
\* validation reports an error in the run.
FailingStacks ==
    {s \in 1..run.base :
        /\ tree[s].kind = "Stack"
        /\ \E n \in 1..run.base :
              tree[n].kind = "Element" /\ tree[n].etype = "resource"
                                       /\ s \in Ancestors(n)
        /\ ~\E n \in 1..run.base :
              tree[n].kind = "Element" /\ tree[n].etype = "provider"
                                       /\ s \in Ancestors(n)}

\* What a step of a run may change: the stage moves by ForwardSteps, stacks
\* are prepared in Preparing only and documents written in Synthesizing only.
StageStep ==
    /\ (run'.phase # run.phase)
          => (<<run.phase, run'.phase>> \in ForwardSteps)
    /\ (Len(run'.prepared) > Len(run.prepared))
          => (run.phase = "Preparing" /\ run'.phase = "Preparing")
    /\ (Len(run'.synthesized) > Len(run.synthesized) \/ docs' # docs)
          => (run.phase = "Synthesizing" /\ run'.phase = "Synthesizing")

\* C11: a synthesis run goes through Idle, Validating, Preparing,
\* Synthesizing, Done in that order: no stack is prepared before validation
\* has finished, no document is synthesized before every stack has been
\* prepared, and the stage only moves forward or to the error state.
C11_StagesInOrder ==
    /\ [](run.prepared # <<>>
             => run.phase \in {"Preparing", "Synthesizing", "Done"})
    /\ [](run.synthesized # <<>>
             => (/\ run.phase \in {"Synthesizing", "Done"}
                 /\ \A s \in AllStacks : InSeq(run.prepared, s)))
    /\ [][StageStep]_vars

\* C11 witness: a run over two stacks has gone through every stage.
C11_Witness ==
    /\ run.phase = "Done"
    /\ Len(run.prepared) = 2
    /\ Len(run.synthesized) = 2

\* C12: when validations are not suppressed and a validation reports an
\* error, the run ends in the error state with the messages of all failing
\* validations, no stack is prepared or synthesized and no document is
\* written.
C12_ValidationFailureAborts ==
    /\ (/\ ~skipValidation
        /\ FailingStacks # {}
        /\ run.phase \notin {"Idle", "Validating"}) => run.phase = "Error"
    /\ (run.phase = "Error") =>
          /\ ~skipValidation
          /\ {run.errors[i].path : i \in DOMAIN run.errors}
                = {PathOf(tree, s) : s \in FailingStacks}
          /\ Len(run.errors) = Cardinality(FailingStacks)
          /\ run.errors # <<>>
          /\ run.prepared = <<>>
          /\ run.synthesized = <<>>
          /\ Len(tree) = run.base
          /\ docs = run.previous

\* C12 witness: a run has failed with the messages of two stacks.
C12_Witness ==
    /\ run.phase = "Error"
    /\ Len(run.errors) = 2

\* C13: with skipValidation set, a run whose validations report errors never
\* enters the error state and goes on through preparation and synthesis to
\* Done.
C13_SkipValidationProceeds ==
    /\ [](skipValidation => run.phase # "Error")
    /\ (skipValidation /\ run.phase = "Validating" /\ FailingStacks # {})
          ~> (run.phase = "Done" /\ FailingStacks # {})

\* C13 witness: a run with suppressed validations and a failing stack is done.
C13_Witness ==
    /\ skipValidation
    /\ run.phase = "Done"
    /\ FailingStacks # {}
    /\ run.synthesized # <<>>

(***************************************************************************)
(* What the claims about a synthesized document speak of.                  *)
(***************************************************************************)
\* The value a document holds at a path (undefined where it holds none).
RECURSIVE At(_, _)
At(v, path) ==
    IF path = <<>> THEN v
    ELSE IF v.kind = "map" /\ Head(path) \in Keys(v)
    THEN At(v.m[Head(path)], Tail(path))
    ELSE Undefined

\* toTerraform was the last call and returned a document.
Synthesized == last.op = "toTerraform" /\ last.result.tf.kind = "map"

\* The metadata section of the document has version and backend, and its
\* backend is "local" unless the metadata of an element of the stack sets it.
MetadataComplete ==
    LET metadata == At(last.result.tf, <<"//", "metadata">>)
    IN  /\ metadata.kind = "map"
        /\ {"version", "backend"} \subseteq Keys(metadata)
        /\ (\A n \in OwnedElements(last.self) :
                "backend" \notin Keys(tree[n].metadata))
              => metadata.m["backend"] = Scalar("local")

\* C14 as stated: every synthesized document, whatever elements and
\* overrides the stack was given, has the metadata section under "//" with
\* version and backend, backend being "local" when no element's metadata
\* sets it.
C14_MetadataAlways ==
    Synthesized => MetadataComplete

\* C14 amended: every document synthesized for a stack that was given no
\* override under "//" has the metadata section under "//" with version and
\* backend, backend being "local" when no element's metadata sets it.
C14_MetadataUnlessOverridden ==
    (Synthesized /\ "//" \notin Keys(tree[last.self].rawOverrides))
        => MetadataComplete

\* C14 witness: a document of a stack with an element and an override on a
\* resource, whose metadata names the backend "local".
C14_Witness ==
    /\ Synthesized
    /\ OwnedElements(last.self) # {}
    /\ Keys(tree[last.self].rawOverrides) = {"resource"}
    /\ At(last.result.tf, <<"//", "metadata", "backend">>) = Scalar("local")

\* The last addOverride call made.
LastOverride == returns[Len(returns)]

\* The list of overridden top-level keys that the metadata carries.
OverridesListed ==
    At(last.result.tf, <<"//", "metadata", "overrides", "stack">>)

\* A document part holds a value: the value itself, or for a mapping every
\* entry of it.
RECURSIVE Contains(_, _)
Contains(d, v) ==
    IF v.kind = "map"
    THEN /\ d.kind = "map"
         /\ \A k \in Keys(v) : k \in Keys(d) /\ Contains(d.m[k], v.m[k])
    ELSE d = v

\* C15 as stated: raw overrides win over everything: the document holds the
\* value of the last addOverride(path, value) at its path whatever the
\* fragments hold there, and the metadata lists the top-level keys of the
\* overrides if and only if an override was added.
C15_OverridesWin ==
    Synthesized =>
        /\ returns # <<>> => At(last.result.tf, LastOverride.path)
                                = LastOverride.value
        /\ IF returns # <<>>
           THEN OverridesListed = Array(Keys(tree[last.self].rawOverrides))
           ELSE OverridesListed = Undefined

\* C15 amended: the document holds at the path of the last
\* addOverride(path, value) what the value resolves to, a mapping being
\* merged into what the fragments hold there and anything else replacing it;
\* and when no override is under "//", the metadata lists the top-level keys
\* of the overrides if and only if an override was added.
C15_OverridesMergedLast ==
    Synthesized =>
        /\ returns # <<>> => Contains(At(last.result.tf, LastOverride.path),
                                      resolve(LastOverride.value))
        /\ "//" \notin Keys(tree[last.self].rawOverrides)
              => IF returns # <<>>
                 THEN OverridesListed = Array(Keys(tree[last.self].rawOverrides))
                 ELSE OverridesListed = Undefined

\* C15 witness: a document in which the override of resource.r has replaced
\* what the fragment of an element holds there.
C15_Witness ==
    /\ Synthesized
    /\ returns # <<>>
    /\ LastOverride.path = <<"resource", "r">>
    /\ LastOverride.value = Scalar("o")
    /\ \E n \in OwnedElements(last.self) :
          At(tree[n].fragment, <<"resource", "r">>) # Undefined
    /\ At(last.result.tf, <<"resource", "r">>) = Scalar("o")
    /\ OverridesListed = Array({"resource"})

\* d is the deep merge of y into x: it has the keys of both; a key both hold
\* as mappings holds their deep merge, any other key of y holds y's value,
\* and the keys of x alone hold x's value.
RECURSIVE MergedAs(_, _, _)
MergedAs(d, x, y) ==
    /\ d.kind = "map"
    /\ Keys(d) = Keys(x) \cup Keys(y)
    /\ \A k \in Keys(d) :
          IF k \notin Keys(y) THEN d.m[k] = x.m[k]
          ELSE IF k \in Keys(x) /\ x.m[k].kind = "map" /\ y.m[k].kind = "map"
          THEN MergedAs(d.m[k], x.m[k], y.m[k])
          ELSE d.m[k] = y.m[k]

\* The document after the fragments of the first i elements of the walk
\* have been merged into it.
MergedUpTo(s, i) ==
    mergeEach(Map("//" :> Map("metadata" :> metadataOf(tree, s))),
              SubSeq(fragmentsOf(tree, s), 1, i), 1)

\* C16: the fragments are deep-merged in walk order: two mappings at a key
\* are merged key by key and no key of either is lost, in every other case
\* the later fragment's value takes the key; the merge never fails.
C16_DeepMergeInWalkOrder ==
    /\ deepMerge(Map("a" :> Map("b" :> Scalar("1"))),
                 Map("a" :> Map("c" :> Scalar("2"))))
          = Map("a" :> Map(("b" :> Scalar("1")) @@ ("c" :> Scalar("2"))))
    /\ deepMerge(Map("a" :> Scalar("1")), Map("a" :> Scalar("2")))
          = Map("a" :> Scalar("2"))
    /\ Synthesized =>
          /\ \A i \in 1..Len(last.result.elements) :
                MergedAs(MergedUpTo(last.self, i), MergedUpTo(last.self, i - 1),
                         resolve(tree[last.result.elements[i]].fragment))
          /\ returns = <<>>
                => last.result.tf
                     = MergedUpTo(last.self, Len(last.result.elements))

\* C16 witness: a document made of two fragments that hold different keys
\* under resource.r; it holds both keys.
C16_Witness ==
    /\ Synthesized
    /\ returns = <<>>
    /\ Len(last.result.elements) = 2
    /\ Keys(At(tree[last.result.elements[1]].fragment, <<"resource", "r">>))
          = {"a"}
    /\ Keys(At(tree[last.result.elements[2]].fragment, <<"resource", "r">>))
          = {"b"}
    /\ Keys(At(last.result.tf, <<"resource", "r">>)) = {"a", "b"}

\* Resolving the value again gives what resolving it once gave.
ResolvesOnce(x) == resolve(resolve(x)) = resolve(x)

\* The structures toTerraform resolves: what the elements of the stack
\* return, and the merged document.
ResolveIdempotentHere ==
    /\ \A n \in OwnedElements(last.self) :
          ResolvesOnce(tree[n].fragment) /\ ResolvesOnce(tree[n].metadata)
    /\ ResolvesOnce(tree[last.self].rawOverrides)
    /\ ResolvesOnce(mergeDocument(tree, last.self))
    /\ last.result.tf = resolve(mergeDocument(tree, last.self))

\* C19 as stated: resolve(resolve(x)) = resolve(x) for every structure, and
\* the final resolve of toTerraform finds the merged document resolved and
\* changes nothing.
C19_FinalResolveChangesNothing ==
    last.op = "toTerraform" =>
        /\ ResolveIdempotentHere
        /\ last.result.tf = mergeDocument(tree, last.self)

\* C19 amended: resolve(resolve(x)) = resolve(x) for every structure, and
\* the final resolve of toTerraform changes nothing when the stack's raw
\* overrides hold no deferred or undefined value.
C19_ResolveIdempotent ==
    last.op = "toTerraform" =>
        /\ ResolveIdempotentHere
        /\ resolve(tree[last.self].rawOverrides) = tree[last.self].rawOverrides
              => last.result.tf = mergeDocument(tree, last.self)

\* C19 witness: a document made of a fragment with a deferred value that
\* resolves to a mapping with a further deferred value, and of an override
\* that holds none.
C19_Witness ==
    /\ Synthesized
    /\ \E n \in OwnedElements(last.self) :
          At(tree[n].fragment, <<"resource", "r", "b">>) = Token("t3")
    /\ At(last.result.tf, <<"resource", "r", "b", "a">>) = Scalar("1")
    /\ returns # <<>>
    /\ resolve(tree[last.self].rawOverrides) = tree[last.self].rawOverrides

\* The stacks on the way from a construct up to the root, itself included.
StacksAbove(c) == {s \in Ancestors(c) \cup {c} : isStack(s)}

\* C17: TerraformStack.of(construct) returns the nearest stack on the way
\* from the construct up to the root, the construct itself if it is a stack;
\* it throws an error naming the construct's path exactly when no node on
\* that way is a stack, and never returns a stack off that way.
C17_OfNearestStack ==
    last.op = "of" =>
        IF StacksAbove(last.arg) = {}
        THEN /\ last.result = NoNode
             /\ last.error.thrown
             /\ last.error.path = PathOf(tree, last.arg)
        ELSE /\ ~last.error.thrown
             /\ last.result \in StacksAbove(last.arg)
             /\ \A s \in StacksAbove(last.arg) :
                   s = last.result \/ s \in Ancestors(last.result)

\* C17 witness: in a tree that holds a stack, of() was called on a construct
\* two levels below the App with no stack above it, and threw.
C17_Witness ==
    /\ last.op = "of"
    /\ last.error.thrown
    /\ Len(last.error.path) = 2
    /\ AllStacks # {}

\* One list is a subsequence of another: its members are in the other, in
\* the same order.
RECURSIVE IsSubsequence(_, _)
IsSubsequence(a, b) ==
    IF a = <<>> THEN TRUE
    ELSE IF b = <<>> THEN FALSE
    ELSE IF Head(a) = Head(b) THEN IsSubsequence(Tail(a), Tail(b))
    ELSE IsSubsequence(a, Tail(b))

\* C20: the walk order is stable while the tree grows: of two element walks
\* of a stack with only node additions in between, the earlier list is a
\* subsequence of the later one.
C20_WalkStableUnderGrowth ==
    (/\ last.op = "terraformElements"
     /\ returns # <<>>
     /\ returns[1].self = last.self)
        => IsSubsequence(returns[1].result, last.result)

\* C20 witness: between the two walks an element was added that the later
\* walk meets before an element of the earlier walk.
C20_Witness ==
    /\ last.op = "terraformElements"
    /\ returns # <<>>
    /\ returns[1].self = last.self
    /\ returns[1].result # <<>>
    /\ Len(last.result) > Len(returns[1].result)
    /\ last.result[1] # returns[1].result[1]

\* The ids on the way from below a construct down to a node.
RECURSIVE IdsBelow(_, _)
IdsBelow(a, n) ==
    IF n = a THEN <<>> ELSE Append(IdsBelow(a, tree[n].scope), tree[n].id)

FlagSet(key) == key \in tree[App].context

\* C18 as stated: with no flag set the logical id of an element is made of
\* the ids strictly below its owning stack, the stack's id left out; the
\* stack's id is a segment only when a flag is set.
C18_StackNameExcludedByDefault ==
    last.op = "getLogicalId" =>
        /\ tree[App].context = {} =>
              last.result = IdsBelow(NearestStack(last.arg), last.arg)
        /\ (\E i \in DOMAIN last.result :
                last.result[i] = tree[NearestStack(last.arg)].id)
              => tree[App].context # {}

\* C18 amended: with the flag EXCLUDE_STACK_ID_FROM_LOGICAL_IDS set the
\* logical id of an element is made of the ids strictly below its owning
\* stack; with the flag not set it is made of the ids of all its scopes
\* below the root, the owning stack's id included.
C18_StackNameExcludedByFlag ==
    last.op = "getLogicalId" =>
        IF FlagSet(EXCLUDE_STACK_ID_FROM_LOGICAL_IDS)
        THEN last.result = IdsBelow(NearestStack(last.arg), last.arg)
        ELSE /\ last.result = IdsBelow(App, last.arg)
             /\ \E i \in DOMAIN last.result :
                   last.result[i] = tree[NearestStack(last.arg)].id

\* C18 witness: with no flag set, an element in a construct of a stack was
\* given a logical id of three segments, the stack's id the first.
C18_Witness ==
    /\ last.op = "getLogicalId"
    /\ tree[App].context = {}
    /\ Len(last.result) = 3
    /\ last.result[1] = tree[NearestStack(last.arg)].id

\* The stacks whose element walk returns the element.
WalkedBy(e) ==
    {S \in AllStacks :
        \E i \in DOMAIN terraformElements(tree, S) :
            terraformElements(tree, S)[i] = e}

\* C21: the element walk from a stack S returns exactly the elements e with
\* TerraformStack.of(e) = S, each once, and every element below a stack is
\* in the walk of exactly one stack.
C21_OwnershipAgreesWithWalk ==
    /\ last.op = "terraformElements" =>
          /\ {last.result[i] : i \in DOMAIN last.result}
                = {e \in Nodes : isElement(tree, e) /\ of(tree, e) = last.self}
          /\ \A i, j \in DOMAIN last.result :
                last.result[i] = last.result[j] => i = j
    /\ \A e \in Nodes :
          (isElement(tree, e) /\ of(tree, e) # NoNode)
              => WalkedBy(e) = {of(tree, e)}

\* C21 witness: the walk of a stack that holds a nested stack returned an
\* element of its own while the nested stack holds an element too.
C21_Witness ==
    /\ last.op = "terraformElements"
    /\ Len(last.result) > 0
    /\ \E S \in AllStacks, e \in Nodes :
          /\ S # last.self
          /\ of(tree, tree[S].scope) = last.self
          /\ isElement(tree, e)
          /\ of(tree, e) = S
          /\ WalkedBy(e) = {S}

\* C22: dependsOn terminates: on every graph built by addDependency calls,
\* a stack added as a dependency of itself included, the dependsOn query of
\* every pair of stacks returns (true or false) instead of recursing without
\* end, whether it is called directly or by addDependency.
C22_DependsOnTerminates ==
    /\ last.op = "dependsOn" => last.result \in {"true", "false"}
    /\ last.op = "addDependency" => last.result # "RangeError"

\* The backends a stack owned when the last call began.
OwnBackendsBefore ==
    {b \in 1..last.nodesBefore : isBackend(tree, b) /\ of(tree, b) = last.self}

\* C23: a read of a stack's backend returns a backend that belongs to this
\* stack; when the stack had none the read adds one local backend scoped to
\* the stack and returns it; when it had one the read adds no node; and a
\* read that follows a read of the same stack returns the same node and
\* adds none.
C23_BackendReadStable ==
    last.op = "backend" =>
        /\ isBackend(tree, last.result)
        /\ of(tree, last.result) = last.self
        /\ (OwnBackendsBefore = {}) =>
              /\ Len(tree) = last.nodesBefore + 1
              /\ last.result = Len(tree)
              /\ tree[last.result].scope = last.self
        /\ (OwnBackendsBefore # {}) =>
              /\ Len(tree) = last.nodesBefore
              /\ last.result \in OwnBackendsBefore
        /\ last.again =>
              /\ last.result = last.previous
              /\ Len(tree) = last.nodesBefore

====
